---- MODULE Spec2Model ----
(***************************************************************************)
(* Model of the EMO Bridge voice-session engine (src/app/backend.py) and   *)
(* of the GUI handlers that drive it (src/app/gui.py).                     *)
(*                                                                         *)
(* Threads of the program:                                                 *)
(*   - the GUI thread, which runs start_chat, stop_chat, set_persona and   *)
(*     update_config;                                                      *)
(*   - session threads, each running _voice_loop;                          *)
(*   - playback (TTS) threads, each running _tts_thread_func;              *)
(*   - background-listener threads started by listen_in_background, each   *)
(*     of which runs _on_speech_detected and, inside it, _process_barge_in *)
(*     (and so its own _speak).                                            *)
(* Texts are sequences of one-character strings, so that lower(), strip(), *)
(* startswith() and replace() are computed and not assumed.                *)
(***************************************************************************)
EXTENDS Naturals, Sequences, FiniteSets

\* Number of session-thread slots (threads alive at the same time).
NSess == 2
\* Number of playback-thread slots.
NTts == 2
\* Number of background-listener slots.
NMon == 2

Sess == 1..NSess
Mon == {100 + i : i \in 1..NMon}
Workers == Sess \cup Mon
Tts == 1..NTts

VARIABLES
  running,             \* self.running
  thread,              \* self.thread: a session slot, 0 for None
  speaking,            \* self.speaking
  interrupt_event,     \* self.interrupt_event
  tts_thread,          \* self.tts_thread: a playback slot, 0 for None
  background_listener, \* self.background_listener: a listener slot, 0 for None
  persona,             \* self.persona
  model,               \* self.model is not None
  status,              \* the GUI's status_var: the last status emitted
  gpc,                 \* position of the GUI thread (inside stop_chat or ready)
  lastGui,             \* the last start/stop handler the GUI thread entered
  pc,                  \* position of each session and listener thread
  heard,               \* each thread's transcription result, as returned
  jt,                  \* the thread object a _speak call joins
  tts,                 \* state of each playback thread
  mrun,                \* running[0] of each background listener
  mqtt_client,         \* self.mqtt_client is not None
  prompt,              \* each thread's prompt: the persona named in it, the
                       \* persona whose instruction it holds, the user's text
  reply                \* each thread's response.text, as returned

vars == <<running, thread, speaking, interrupt_event, tts_thread,
          background_listener, persona, model, status, gpc, lastGui,
          pc, heard, jt, tts, mrun, mqtt_client, prompt, reply>>

-----------------------------------------------------------------------------
(* Texts *)

UpperCase == <<"A","B","C","D","E","F","G","H","I","J","K","L","M",
               "N","O","P","Q","R","S","T","U","V","W","X","Y","Z">>
LowerCase == <<"a","b","c","d","e","f","g","h","i","j","k","l","m",
               "n","o","p","q","r","s","t","u","v","w","x","y","z">>

LowerChar(c) ==
  IF \E i \in 1..Len(UpperCase) : UpperCase[i] = c
  THEN LowerCase[CHOOSE i \in 1..Len(UpperCase) : UpperCase[i] = c]
  ELSE c

\* str.lower()
Lower(s) == [i \in 1..Len(s) |-> LowerChar(s[i])]

IsSpace(c) == c = " "

RECURSIVE LStrip(_)
LStrip(s) == IF s # <<>> /\ IsSpace(Head(s)) THEN LStrip(Tail(s)) ELSE s

RECURSIVE RStrip(_)
RStrip(s) ==
  IF s # <<>> /\ IsSpace(s[Len(s)]) THEN RStrip(SubSeq(s, 1, Len(s) - 1)) ELSE s

\* str.strip()
Strip(s) == RStrip(LStrip(s))

\* str.startswith(p)
StartsWith(s, p) == Len(s) >= Len(p) /\ SubSeq(s, 1, Len(p)) = p

\* s.replace(p, ""): every occurrence of p removed
RECURSIVE ReplaceAll(_, _)
ReplaceAll(s, p) ==
  LET occ == {i \in 1..(Len(s) - Len(p) + 1) : SubSeq(s, i, i + Len(p) - 1) = p}
  IN IF occ = {} THEN s
     ELSE LET i == CHOOSE k \in occ : \A j \in occ : k <= j
          IN SubSeq(s, 1, i - 1) \o ReplaceAll(SubSeq(s, i + Len(p), Len(s)), p)

\* s.replace(p, "", 1): the first occurrence of p removed
ReplaceFirst(s, p) ==
  LET occ == {i \in 1..(Len(s) - Len(p) + 1) : SubSeq(s, i, i + Len(p) - 1) = p}
  IN IF occ = {} THEN s
     ELSE LET i == CHOOSE k \in occ : \A j \in occ : k <= j
          IN SubSeq(s, 1, i - 1) \o SubSeq(s, i + Len(p), Len(s))

\* recognize_google(audio).lower().strip()
Normalize(raw) == Strip(Lower(raw))

W_quit == <<"q","u","i","t">>
W_exit == <<"e","x","i","t">>
W_stop == <<"s","t","o","p">>
W_end == <<"e","n","d">>
W_emo == <<"e","m","o">>
W_emusinio == <<"e","m","u","s","i","n","i","o">>
W_QUIT == <<"Q","U","I","T">>

\* the list of the quit check: ["quit", "exit", "stop", "end"]
QuitPhrases == {W_quit, W_exit, W_stop, W_end}

\* The QUIT check of the reply without regard to case.
IsQuitReplyAnyCase(r) == Lower(r) = W_quit

\* reply == "QUIT"
IsQuitReply(r) == r = W_QUIT

\* The quit check as a prefix match instead of list membership.
IsQuitPhraseLoose(text) == \E q \in QuitPhrases : StartsWith(text, q)

\* text in ["quit", "exit", "stop", "end"]
IsQuitPhrase(text) == text \in QuitPhrases

\* The persona after the persona-switch block.
SwitchPersona(text, cur) ==
  IF StartsWith(text, W_emo) THEN "EMO"
  ELSE IF StartsWith(text, W_emusinio) THEN "EMUSINIO"
  ELSE cur

\* The text after the persona-switch block.
SwitchText(text) ==
  IF StartsWith(text, W_emo) THEN Strip(ReplaceFirst(text, W_emo))
  ELSE IF StartsWith(text, W_emusinio) THEN Strip(ReplaceFirst(text, W_emusinio))
  ELSE text

\* What the transcriber may return (before .lower().strip()).
Heard ==
  { W_stop,
    <<" ","Q","u","i","t"," ">>,
    <<"s","t","o","p"," ","i","t">>,
    <<"q","u","i","e","t">>,
    W_emo,
    <<" ">> }

\* What the generator may return (response.text, before .strip()).
Replies == { W_QUIT, <<" ","Q","U","I","T"," ">>, W_quit, <<"o","k">> }

\* What the generator returns in the runs of Spec: the reply QUIT and one
\* other reply.
SpecReplies == { W_QUIT, <<"o","k">> }

NoText == <<>>

\* No prompt has been built.
NoPrompt == [persona |-> "", instruction |-> "", text |-> NoText]

Min(S) == CHOOSE x \in S : \A y \in S : x <= y

-----------------------------------------------------------------------------
(* Construction: EMOBridgeBackend.__init__ called by initialize_backend *)

Init ==
  /\ running = FALSE
  /\ thread = 0
  /\ speaking = FALSE
  /\ interrupt_event = FALSE
  /\ tts_thread = 0
  /\ background_listener = 0
  /\ persona = "EMO"
  /\ model \in BOOLEAN
  /\ status = IF model THEN "Idle" ELSE "Error"
  /\ gpc = "ready"
  /\ lastGui = "none"
  /\ pc = [w \in Workers |-> "dead"]
  /\ heard = [w \in Workers |-> NoText]
  /\ jt = [w \in Workers |-> 0]
  /\ tts = [t \in Tts |-> "dead"]
  /\ mrun = [m \in Mon |-> FALSE]
  /\ mqtt_client = FALSE
  /\ prompt = [w \in Workers |-> NoPrompt]
  /\ reply = [w \in Workers |-> NoText]

-----------------------------------------------------------------------------
(* Helpers shared by the handlers *)

\* running[0] of every listener after _stop_background_listener()
StoppedListeners ==
  IF background_listener # 0
  THEN [mrun EXCEPT ![background_listener] = FALSE]
  ELSE mrun

\* A playback slot whose thread has ended and that no _speak call still joins.
FreeTts == {t \in Tts : tts[t] = "dead" /\ \A w \in Workers : jt[w] # t}

FreeSess == {s \in Sess : pc[s] = "dead"}

FreeMon == {m \in Mon : pc[m] = "dead"}

\* Where a thread goes when its cycle is over: the session thread to the top
\* of its loop, the listener thread back into listen_in_background's loop.
CycleEnd(w) == IF w \in Sess THEN "top" ELSE "m_wait"

\* Where a thread goes at "if not text or not self.model": the session thread
\* to its "continue", the listener's callback returns.
CycleSkip(w) == IF w \in Sess THEN "skip" ELSE "m_wait"

\* The exception is not caught in the session thread, which ends.
CycleRaiseFatal(w, p) == IF w \in Sess THEN "dead" ELSE "m_wait"

\* Where a thread goes when the call at position p of its cycle raises: the
\* session thread into the except block of _voice_loop, the listener thread
\* out of _on_speech_detected, whose except block only logs.
CycleRaise(w, p) == IF w \in Sess THEN p ELSE "m_wait"

\* Where a thread goes when the session is ended from inside a cycle: the
\* session thread breaks out of its loop, the listener's callback returns.
CycleQuit(w) == IF w \in Sess THEN "exit" ELSE "m_wait"

-----------------------------------------------------------------------------
(* GUI thread *)

\* start_chat with its guard inverted.
StartChatInverted ==
  IF ~running
  THEN UNCHANGED <<running, thread, pc>>
  ELSE /\ FreeSess # {}
       /\ running' = TRUE
       /\ thread' = Min(FreeSess)
       /\ pc' = [pc EXCEPT ![Min(FreeSess)] = "top"]

\* EMOBridgeBackend.start_chat
StartChat ==
  IF running
  THEN UNCHANGED <<running, thread, pc>>
  ELSE /\ FreeSess # {}
       /\ running' = TRUE
       /\ thread' = Min(FreeSess)
       /\ pc' = [pc EXCEPT ![Min(FreeSess)] = "top"]

\* EMOBridgeApp.start_chat
GuiStartChat ==
  /\ gpc = "ready"
  /\ StartChat
  /\ status' = "Listening"
  /\ lastGui' = IF running THEN "start_noop" ELSE "start"
  /\ UNCHANGED <<speaking, interrupt_event, tts_thread, background_listener,
                 persona, model, gpc, heard, jt, tts, mrun>>
  /\ UNCHANGED <<mqtt_client, prompt, reply>>

\* start_chat called while a session is running, or while no session thread
\* is alive
SpecStartChat ==
  /\ running \/ \A s \in Sess : pc[s] = "dead"
  /\ GuiStartChat

\* EMOBridgeBackend.stop_chat, up to the first join
StopChatBegin ==
  /\ gpc = "ready"
  /\ running' = FALSE
  /\ mrun' = StoppedListeners
  /\ background_listener' = 0
  /\ interrupt_event' = TRUE
  /\ gpc' = "st_join"
  /\ lastGui' = "stop"
  /\ UNCHANGED <<thread, speaking, tts_thread, persona, model, status,
                 pc, heard, jt, tts>>
  /\ UNCHANGED <<mqtt_client, prompt, reply>>

\* stop_chat: the two bounded joins (each returns when its thread has ended
\* or its timeout has run out), then thread = None and speaking = False
StopChatJoin ==
  /\ gpc = "st_join"
  /\ thread' = 0
  /\ speaking' = FALSE
  /\ gpc' = "st_bye"
  /\ UNCHANGED <<running, interrupt_event, tts_thread, background_listener,
                 persona, model, status, lastGui, pc, heard, jt, tts, mrun>>
  /\ UNCHANGED <<mqtt_client, prompt, reply>>

\* stop_chat: the farewell has been played and stop_chat returns;
\* EMOBridgeApp.stop_chat then emits Idle
StopChatDone ==
  /\ gpc = "st_bye"
  /\ status' = "Idle"
  /\ gpc' = "ready"
  /\ UNCHANGED <<running, thread, speaking, interrupt_event, tts_thread,
                 background_listener, persona, model, lastGui, pc, heard,
                 jt, tts, mrun>>
  /\ UNCHANGED <<mqtt_client, prompt, reply>>

\* EMOBridgeApp.save_settings calling EMOBridgeBackend.update_config with a
\* new value of enable_mqtt (the API key is not changed): _configure_gemini()
\* emits Error again if there is no key; the MQTT client is dropped, and it is
\* there afterwards if MQTT is enabled and the broker could be reached
UpdateConfig(connected) ==
  /\ gpc = "ready"
  /\ status' = IF model THEN status ELSE "Error"
  /\ mqtt_client' = connected
  /\ UNCHANGED <<running, thread, speaking, interrupt_event, tts_thread,
                 background_listener, persona, model, gpc, lastGui, pc,
                 heard, jt, tts, mrun, prompt, reply>>

-----------------------------------------------------------------------------
(* Session thread: _voice_loop *)

\* while self.running: status Listening, then the thread blocks in listen()
VoiceLoopTop(s) ==
  /\ pc[s] = "top"
  /\ IF running
     THEN /\ status' = "Listening"
          /\ pc' = [pc EXCEPT ![s] = "listen"]
     ELSE /\ pc' = [pc EXCEPT ![s] = "exit"]
          /\ UNCHANGED status
  /\ UNCHANGED <<running, thread, speaking, interrupt_event, tts_thread,
                 background_listener, persona, model, gpc, lastGui, heard,
                 jt, tts, mrun>>
  /\ UNCHANGED <<mqtt_client, prompt, reply>>

\* listen() and recognize_google() return a text
VoiceLoopHear(s, raw) ==
  /\ pc[s] = "listen"
  /\ heard' = [heard EXCEPT ![s] = raw]
  /\ pc' = [pc EXCEPT ![s] = "route"]
  /\ UNCHANGED <<running, thread, speaking, interrupt_event, tts_thread,
                 background_listener, persona, model, status, gpc, lastGui,
                 jt, tts, mrun>>
  /\ UNCHANGED <<mqtt_client, prompt, reply>>

\* recognize_google() raises UnknownValueError: the thread is in that except
\* block
VoiceLoopUnknown(s) ==
  /\ pc[s] = "listen"
  /\ pc' = [pc EXCEPT ![s] = "x_unknown"]
  /\ UNCHANGED <<running, thread, speaking, interrupt_event, tts_thread,
                 background_listener, persona, model, status, gpc, lastGui,
                 heard, jt, tts, mrun>>
  /\ UNCHANGED <<mqtt_client, prompt, reply>>

\* recognize_google() raises RequestError, or listen() raises anything else:
\* status Error, and the loop goes on
VoiceLoopRecognitionError(s) ==
  /\ pc[s] = "listen"
  /\ status' = "Error"
  /\ pc' = [pc EXCEPT ![s] = "top"]
  /\ UNCHANGED <<running, thread, speaking, interrupt_event, tts_thread,
                 background_listener, persona, model, gpc, lastGui, heard,
                 jt, tts, mrun>>
  /\ UNCHANGED <<mqtt_client, prompt, reply>>

\* The "continue" with an Error status emitted before it.
VoiceLoopContinueLoud(s) ==
  /\ pc[s] \in {"x_unknown", "skip"}
  /\ pc' = [pc EXCEPT ![s] = "top"]
  /\ status' = "Error"
  /\ heard' = [heard EXCEPT ![s] = NoText]
  /\ UNCHANGED <<running, thread, speaking, interrupt_event, tts_thread,
                 background_listener, persona, model, gpc, lastGui,
                 jt, tts, mrun, mqtt_client, prompt, reply>>

\* "continue": after UnknownValueError (only logged) and after the "no text
\* or no model" check, the loop goes to its next turn without a status
VoiceLoopContinue(s) ==
  /\ pc[s] \in {"x_unknown", "skip"}
  /\ pc' = [pc EXCEPT ![s] = "top"]
  /\ heard' = [heard EXCEPT ![s] = NoText]
  /\ UNCHANGED <<running, thread, speaking, interrupt_event, tts_thread,
                 background_listener, persona, model, status, gpc, lastGui,
                 jt, tts, mrun, mqtt_client, prompt, reply>>

\* The except block of Exception leaving the loop.
VoiceLoopCaughtFatal(s) ==
  /\ pc[s] \in {"x_gen", "x_pub"}
  /\ status' = "Error"
  /\ pc' = [pc EXCEPT ![s] = "exit"]
  /\ prompt' = [prompt EXCEPT ![s] = NoPrompt]
  /\ UNCHANGED <<running, thread, speaking, interrupt_event, tts_thread,
                 background_listener, persona, model, gpc, lastGui, heard,
                 jt, tts, mrun, mqtt_client, reply>>

\* The except block of Exception after a failed generation or publish call:
\* status Error and a pause, and the loop goes to its next turn
VoiceLoopCaught(s) ==
  /\ pc[s] \in {"x_gen", "x_pub"}
  /\ status' = "Error"
  /\ pc' = [pc EXCEPT ![s] = "top"]
  /\ prompt' = [prompt EXCEPT ![s] = NoPrompt]
  /\ UNCHANGED <<running, thread, speaking, interrupt_event, tts_thread,
                 background_listener, persona, model, gpc, lastGui, heard,
                 jt, tts, mrun, mqtt_client, reply>>

\* The loop has ended: status Idle, and the thread ends
VoiceLoopExit(s) ==
  /\ pc[s] = "exit"
  /\ status' = "Idle"
  /\ pc' = [pc EXCEPT ![s] = "dead"]
  /\ heard' = [heard EXCEPT ![s] = NoText]
  /\ reply' = [reply EXCEPT ![s] = NoText]
  /\ UNCHANGED <<running, thread, speaking, interrupt_event, tts_thread,
                 background_listener, persona, model, gpc, lastGui, jt, tts,
                 mrun, mqtt_client, prompt>>

-----------------------------------------------------------------------------
(* The cycle after the text is known: _voice_loop from the quit check on, *)
(* and _process_barge_in, which repeats it on the listener thread         *)

\* The check with the model test left out.
SkipsGenerationEmptyOnly(rest) == rest = <<>>

\* The check with the text test left out.
SkipsGenerationNoModelOnly(rest) == ~model

\* if not text or not self.model: no generation in this cycle
SkipsGeneration(rest) == rest = <<>> \/ ~model

\* The quit check, the persona switch and the "no text or no model" check.
\* A listener thread first passes _process_barge_in's bounded join and
\* emits Listening. The prompt is built in the same step: both reads of
\* self.persona see one value (RouteRead and PromptBuilt take them apart).
Route(w) ==
  /\ pc[w] = "route"
  /\ LET text == Normalize(heard[w])
         rest == SwitchText(text)
     IN IF IsQuitPhrase(text)
        THEN /\ running' = FALSE
             /\ status' = "Idle"
             /\ pc' = [pc EXCEPT ![w] = CycleQuit(w)]
             /\ heard' = IF w \in Sess THEN heard
                         ELSE [heard EXCEPT ![w] = NoText]
             /\ UNCHANGED <<persona, prompt>>
        ELSE /\ persona' = SwitchPersona(text, persona)
             /\ status' = IF w \in Mon THEN "Listening" ELSE status
             /\ IF SkipsGeneration(rest)
                THEN /\ pc' = [pc EXCEPT ![w] = CycleSkip(w)]
                     /\ heard' = IF w \in Sess THEN heard
                                 ELSE [heard EXCEPT ![w] = NoText]
                     /\ UNCHANGED prompt
                ELSE /\ pc' = [pc EXCEPT ![w] = "gen"]
                     /\ heard' = [heard EXCEPT ![w] = NoText]
                     /\ prompt' = [prompt EXCEPT ![w] =
                                     [persona |-> persona',
                                      instruction |-> persona',
                                      text |-> rest]]
             /\ UNCHANGED running
  /\ UNCHANGED <<thread, speaking, interrupt_event, tts_thread,
                 background_listener, model, gpc, lastGui, jt, tts, mrun,
                 mqtt_client, reply>>

\* generate_content() returns a response
Generated(w, raw) ==
  /\ pc[w] = "gen"
  /\ reply' = [reply EXCEPT ![w] = raw]
  /\ prompt' = [prompt EXCEPT ![w] = NoPrompt]
  /\ pc' = [pc EXCEPT ![w] = "reply"]
  /\ UNCHANGED <<running, thread, speaking, interrupt_event, tts_thread,
                 background_listener, persona, model, status, gpc, lastGui,
                 heard, jt, tts, mrun, mqtt_client>>

\* reply = response.text.strip(); the reply QUIT ends the session, any other
\* reply is announced by the status Speaking and handed to _speak
ReplyChecked(w) ==
  /\ pc[w] = "reply"
  /\ IF IsQuitReply(Strip(reply[w]))
     THEN /\ running' = FALSE
          /\ status' = "Idle"
          /\ pc' = [pc EXCEPT ![w] = CycleQuit(w)]
          /\ reply' = IF w \in Sess THEN reply
                      ELSE [reply EXCEPT ![w] = NoText]
     ELSE /\ status' = "Speaking"
          /\ pc' = [pc EXCEPT ![w] = "sp_clear"]
          /\ reply' = [reply EXCEPT ![w] = NoText]
          /\ UNCHANGED running
  /\ UNCHANGED <<thread, speaking, interrupt_event, tts_thread,
                 background_listener, persona, model, gpc, lastGui, heard,
                 jt, tts, mrun, mqtt_client, prompt>>

\* generate_content() raises, or response.text does: the session thread is
\* in the except block of Exception, the prompt still in its hands;
\* _on_speech_detected only logs
GenerationFailed(w) ==
  /\ pc[w] = "gen"
  /\ prompt' = IF w \in Sess THEN prompt
               ELSE [prompt EXCEPT ![w] = NoPrompt]
  /\ pc' = [pc EXCEPT ![w] = CycleRaise(w, "x_gen")]
  /\ UNCHANGED <<running, thread, speaking, interrupt_event, tts_thread,
                 background_listener, persona, model, status, gpc, lastGui,
                 heard, jt, tts, mrun, mqtt_client, reply>>

-----------------------------------------------------------------------------
(* _speak, run by the thread that got the reply *)

\* interrupt_event.clear(), speaking = True, the playback thread is started
SpeakStart(w) ==
  /\ pc[w] = "sp_clear"
  /\ FreeTts # {}
  /\ interrupt_event' = FALSE
  /\ speaking' = TRUE
  /\ tts_thread' = Min(FreeTts)
  /\ tts' = [tts EXCEPT ![Min(FreeTts)] = "playing"]
  /\ pc' = [pc EXCEPT ![w] = "sp_mon"]
  /\ UNCHANGED <<running, thread, background_listener, persona, model,
                 status, gpc, lastGui, heard, jt, mrun>>
  /\ UNCHANGED <<mqtt_client, prompt, reply>>

\* _start_background_listener() starts a listener thread and keeps its stop
\* handle; then self.tts_thread.join() is called
SpeakListen(w) ==
  /\ pc[w] = "sp_mon"
  /\ FreeMon # {}
  /\ background_listener' = Min(FreeMon)
  /\ mrun' = [mrun EXCEPT ![Min(FreeMon)] = TRUE]
  /\ jt' = [jt EXCEPT ![w] = tts_thread]
  /\ pc' = [pc EXCEPT ![w] = "sp_join", ![Min(FreeMon)] = "m_wait"]
  /\ UNCHANGED <<running, thread, speaking, interrupt_event, tts_thread,
                 persona, model, status, gpc, lastGui, heard, tts>>
  /\ UNCHANGED <<mqtt_client, prompt, reply>>

\* _start_background_listener() fails (it only logs); then the join is called
SpeakListenFailed(w) ==
  /\ pc[w] = "sp_mon"
  /\ jt' = [jt EXCEPT ![w] = tts_thread]
  /\ pc' = [pc EXCEPT ![w] = "sp_join"]
  /\ UNCHANGED <<running, thread, speaking, interrupt_event, tts_thread,
                 background_listener, persona, model, status, gpc, lastGui,
                 heard, tts, mrun>>
  /\ UNCHANGED <<mqtt_client, prompt, reply>>

\* The join returns; _stop_background_listener(), speaking = False; _speak
\* returns. Then "if self.mqtt_client": without a client the cycle is over
SpeakJoined(w) ==
  /\ pc[w] = "sp_join"
  /\ tts[jt[w]] = "dead"
  /\ mrun' = StoppedListeners
  /\ background_listener' = 0
  /\ speaking' = FALSE
  /\ jt' = [jt EXCEPT ![w] = 0]
  /\ pc' = [pc EXCEPT ![w] = IF mqtt_client THEN "pub" ELSE CycleEnd(w)]
  /\ UNCHANGED <<running, thread, interrupt_event, tts_thread, persona,
                 model, status, gpc, lastGui, heard, tts, mqtt_client,
                 prompt, reply>>

\* self.mqtt_client.publish(topic, reply) returns and the cycle is over
Published(w) ==
  /\ pc[w] = "pub"
  /\ mqtt_client
  /\ pc' = [pc EXCEPT ![w] = CycleEnd(w)]
  /\ UNCHANGED <<running, thread, speaking, interrupt_event, tts_thread,
                 background_listener, persona, model, status, gpc, lastGui,
                 heard, jt, tts, mrun, mqtt_client, prompt, reply>>

\* self.mqtt_client.publish(topic, reply) raises: the session thread is in
\* the except block of Exception, _on_speech_detected only logs
PublishFailed(w) ==
  /\ pc[w] = "pub"
  /\ mqtt_client
  /\ pc' = [pc EXCEPT ![w] = CycleRaise(w, "x_pub")]
  /\ UNCHANGED <<running, thread, speaking, interrupt_event, tts_thread,
                 background_listener, persona, model, status, gpc, lastGui,
                 heard, jt, tts, mrun, mqtt_client, prompt, reply>>

\* update_config() has set mqtt_client to None since the check:
\* self.mqtt_client.publish raises AttributeError, which is handled as any
\* other exception
PublishOnNone(w) ==
  /\ pc[w] = "pub"
  /\ ~mqtt_client
  /\ pc' = [pc EXCEPT ![w] = CycleRaise(w, "x_pub")]
  /\ UNCHANGED <<running, thread, speaking, interrupt_event, tts_thread,
                 background_listener, persona, model, status, gpc, lastGui,
                 heard, jt, tts, mrun, mqtt_client, prompt, reply>>

-----------------------------------------------------------------------------
(* Playback thread: _tts_thread_func *)

\* runAndWait() returns because the utterance has been spoken to its end
\* (or the engine raised); the thread ends
TtsFinished(t) ==
  /\ tts[t] = "playing"
  /\ tts' = [tts EXCEPT ![t] = "dead"]
  /\ UNCHANGED <<running, thread, speaking, interrupt_event, tts_thread,
                 background_listener, persona, model, status, gpc, lastGui,
                 pc, heard, jt, mrun>>
  /\ UNCHANGED <<mqtt_client, prompt, reply>>

\* runAndWait() returns because engine.stop() ended the utterance
TtsStopped(t) ==
  /\ tts[t] = "cut"
  /\ tts' = [tts EXCEPT ![t] = "dead"]
  /\ UNCHANGED <<running, thread, speaking, interrupt_event, tts_thread,
                 background_listener, persona, model, status, gpc, lastGui,
                 pc, heard, jt, mrun>>
  /\ UNCHANGED <<mqtt_client, prompt, reply>>

-----------------------------------------------------------------------------
(* Listener thread: listen_in_background's loop and _on_speech_detected *)

\* The loop got audio while running[0] is set and calls the callback, which
\* goes on only if self.speaking
ListenerCallback(m) ==
  /\ pc[m] = "m_wait"
  /\ mrun[m]
  /\ speaking
  /\ pc' = [pc EXCEPT ![m] = "m_rec"]
  /\ UNCHANGED <<running, thread, speaking, interrupt_event, tts_thread,
                 background_listener, persona, model, status, gpc, lastGui,
                 heard, jt, tts, mrun>>
  /\ UNCHANGED <<mqtt_client, prompt, reply>>

\* The loop finds running[0] cleared and the thread ends
ListenerExit(m) ==
  /\ pc[m] = "m_wait"
  /\ ~mrun[m]
  /\ pc' = [pc EXCEPT ![m] = "dead"]
  /\ UNCHANGED <<running, thread, speaking, interrupt_event, tts_thread,
                 background_listener, persona, model, status, gpc, lastGui,
                 heard, jt, tts, mrun>>
  /\ UNCHANGED <<mqtt_client, prompt, reply>>

\* engine.stop() on the engine pyttsx3.init() hands back: the utterances
\* being spoken are ended
EngineStopped == [t \in Tts |-> IF tts[t] = "playing" THEN "cut" ELSE tts[t]]

\* recognize_google() returns a text: if it is not empty, interrupt_event is
\* set, the engine is stopped, Interrupted is emitted and _process_barge_in
\* is entered
OnSpeechDetected(m, raw) ==
  /\ pc[m] = "m_rec"
  /\ IF Normalize(raw) # <<>>
     THEN /\ interrupt_event' = TRUE
          /\ tts' = EngineStopped
          /\ status' = "Interrupted"
          /\ heard' = [heard EXCEPT ![m] = raw]
          /\ pc' = [pc EXCEPT ![m] = "route"]
     ELSE /\ pc' = [pc EXCEPT ![m] = "m_wait"]
          /\ UNCHANGED <<interrupt_event, tts, status, heard>>
  /\ UNCHANGED <<running, thread, speaking, tts_thread, background_listener,
                 persona, model, gpc, lastGui, jt, mrun>>
  /\ UNCHANGED <<mqtt_client, prompt, reply>>

\* recognize_google() raises (UnknownValueError or anything else): ignored
OnSpeechUnknown(m) ==
  /\ pc[m] = "m_rec"
  /\ pc' = [pc EXCEPT ![m] = "m_wait"]
  /\ UNCHANGED <<running, thread, speaking, interrupt_event, tts_thread,
                 background_listener, persona, model, status, gpc, lastGui,
                 heard, jt, tts, mrun>>
  /\ UNCHANGED <<mqtt_client, prompt, reply>>

-----------------------------------------------------------------------------

Next ==
  \/ SpecStartChat
  \/ StopChatBegin
  \/ StopChatJoin
  \/ StopChatDone
  \/ \E s \in Sess : VoiceLoopTop(s)
  \/ \E s \in Sess, raw \in Heard : VoiceLoopHear(s, raw)
  \/ \E s \in Sess : VoiceLoopUnknown(s)
  \/ \E s \in Sess : VoiceLoopRecognitionError(s)
  \/ \E s \in Sess : VoiceLoopContinue(s)
  \/ \E s \in Sess : VoiceLoopCaught(s)
  \/ \E s \in Sess : VoiceLoopExit(s)
  \/ \E w \in Workers : Route(w)
  \/ \E w \in Workers, raw \in SpecReplies : Generated(w, raw)
  \/ \E w \in Workers : ReplyChecked(w)
  \/ \E w \in Workers : GenerationFailed(w)
  \/ \E w \in Workers : SpeakStart(w)
  \/ \E w \in Workers : SpeakListen(w)
  \/ \E w \in Workers : SpeakListenFailed(w)
  \/ \E w \in Workers : SpeakJoined(w)
  \/ \E t \in Tts : TtsFinished(t)
  \/ \E t \in Tts : TtsStopped(t)
  \/ \E m \in Mon : ListenerCallback(m)
  \/ \E m \in Mon : ListenerExit(m)
  \/ \E m \in Mon, raw \in Heard : OnSpeechDetected(m, raw)
  \/ \E m \in Mon : OnSpeechUnknown(m)

Spec == Init /\ [][Next]_vars

-----------------------------------------------------------------------------
(* The cycles with persona switches and the MQTT client *)

\* What the transcriber may return in the runs of CycleSpec.
HeardCycle ==
  { <<"e","m","o"," ","h","i">>,
    <<"E","m","u","s","i","n","i","o"," ","h","i">>,
    <<"e","m","o"," ","e","m","o"," ","h","i">>,
    <<"h","i">>,
    W_emusinio,
    W_emo }

\* start_chat called while no session is running and no session thread is
\* alive
CycleStartChat ==
  /\ ~running
  /\ \A s \in Sess : pc[s] = "dead"
  /\ GuiStartChat

CycleInit ==
  /\ running = FALSE
  /\ thread = 0
  /\ speaking = FALSE
  /\ interrupt_event = FALSE
  /\ tts_thread = 0
  /\ background_listener = 0
  /\ persona = "EMO"
  /\ model \in BOOLEAN
  /\ status = IF model THEN "Idle" ELSE "Error"
  /\ gpc = "ready"
  /\ lastGui = "none"
  /\ pc = [w \in Workers |-> "dead"]
  /\ heard = [w \in Workers |-> NoText]
  /\ jt = [w \in Workers |-> 0]
  /\ tts = [t \in Tts |-> "dead"]
  /\ mrun = [m \in Mon |-> FALSE]
  /\ mqtt_client \in BOOLEAN
  /\ prompt = [w \in Workers |-> NoPrompt]
  /\ reply = [w \in Workers |-> NoText]

CycleNext ==
  \/ CycleStartChat
  \/ \E connected \in BOOLEAN : UpdateConfig(connected)
  \/ \E s \in Sess : VoiceLoopTop(s)
  \/ \E s \in Sess, raw \in HeardCycle : VoiceLoopHear(s, raw)
  \/ \E s \in Sess : VoiceLoopUnknown(s)
  \/ \E s \in Sess : VoiceLoopRecognitionError(s)
  \/ \E s \in Sess : VoiceLoopContinue(s)
  \/ \E s \in Sess : VoiceLoopCaught(s)
  \/ \E s \in Sess : VoiceLoopExit(s)
  \/ \E w \in Workers : Route(w)
  \/ \E w \in Workers, raw \in Replies : Generated(w, raw)
  \/ \E w \in Workers : ReplyChecked(w)
  \/ \E w \in Workers : GenerationFailed(w)
  \/ \E w \in Workers : SpeakStart(w)
  \/ \E s \in Sess : SpeakListen(s)
  \/ \E w \in Workers : SpeakListenFailed(w)
  \/ \E w \in Workers : SpeakJoined(w)
  \/ \E w \in Workers : Published(w)
  \/ \E w \in Workers : PublishFailed(w)
  \/ \E w \in Workers : PublishOnNone(w)
  \/ \E t \in Tts : TtsFinished(t)
  \/ \E t \in Tts : TtsStopped(t)
  \/ \E m \in Mon : ListenerCallback(m)
  \/ \E m \in Mon : ListenerExit(m)
  \/ \E m \in Mon, raw \in HeardCycle : OnSpeechDetected(m, raw)
  \/ \E m \in Mon : OnSpeechUnknown(m)

CycleSpec == CycleInit /\ [][CycleNext]_vars

-----------------------------------------------------------------------------
(* Sessions stopped and started again, and the persona chosen in the GUI *)

\* The values of the persona combobox.
Personas == {"EMO", "EMUSINIO"}

\* What the transcriber may return in the runs of RestartSpec.
HeardRestart ==
  { W_stop,
    <<"h","i">>,
    <<"e","m","u","s","i","n","i","o"," ","h","i">> }

\* What a listener thread's transcriber may return in the runs of
\* RestartSpec: blanks only, the user does not barge in.
HeardBlank == { <<" ">> }

\* EMOBridgeApp.on_persona_change calling EMOBridgeBackend.set_persona
SetPersona(p) ==
  /\ gpc = "ready"
  /\ persona' = p
  /\ UNCHANGED <<running, thread, speaking, interrupt_event, tts_thread,
                 background_listener, model, status, gpc, lastGui, pc, heard,
                 jt, tts, mrun, mqtt_client, prompt, reply>>

\* Route taken apart at the two reads of self.persona that build the prompt.
\* This is the first part: the quit check, the persona switch, the "no text
\* or no model" check and instruction = self.get_persona_instruction()
RouteRead(w) ==
  /\ pc[w] = "route"
  /\ LET text == Normalize(heard[w])
         rest == SwitchText(text)
     IN IF IsQuitPhrase(text)
        THEN /\ running' = FALSE
             /\ status' = "Idle"
             /\ pc' = [pc EXCEPT ![w] = CycleQuit(w)]
             /\ heard' = IF w \in Sess THEN heard
                         ELSE [heard EXCEPT ![w] = NoText]
             /\ UNCHANGED <<persona, prompt>>
        ELSE /\ persona' = SwitchPersona(text, persona)
             /\ status' = IF w \in Mon THEN "Listening" ELSE status
             /\ IF SkipsGeneration(rest)
                THEN /\ pc' = [pc EXCEPT ![w] = CycleSkip(w)]
                     /\ heard' = IF w \in Sess THEN heard
                                 ELSE [heard EXCEPT ![w] = NoText]
                     /\ UNCHANGED prompt
                ELSE /\ pc' = [pc EXCEPT ![w] = "build"]
                     /\ heard' = [heard EXCEPT ![w] = NoText]
                     /\ prompt' = [prompt EXCEPT ![w] =
                                     [persona |-> "",
                                      instruction |-> persona',
                                      text |-> rest]]
             /\ UNCHANGED running
  /\ UNCHANGED <<thread, speaking, interrupt_event, tts_thread,
                 background_listener, model, gpc, lastGui, jt, tts, mrun,
                 mqtt_client, reply>>

\* The second part: the f-string reads self.persona for "You are ..."
PromptBuilt(w) ==
  /\ pc[w] = "build"
  /\ prompt' = [prompt EXCEPT ![w].persona = persona]
  /\ pc' = [pc EXCEPT ![w] = "gen"]
  /\ UNCHANGED <<running, thread, speaking, interrupt_event, tts_thread,
                 background_listener, persona, model, status, gpc, lastGui,
                 heard, jt, tts, mrun, mqtt_client, reply>>

RestartNext ==
  \/ GuiStartChat
  \/ StopChatBegin
  \/ StopChatJoin
  \/ StopChatDone
  \/ \E p \in Personas : SetPersona(p)
  \/ \E s \in Sess : VoiceLoopTop(s)
  \/ \E s \in Sess, raw \in HeardRestart : VoiceLoopHear(s, raw)
  \/ \E s \in Sess : VoiceLoopUnknown(s)
  \/ \E s \in Sess : VoiceLoopRecognitionError(s)
  \/ \E s \in Sess : VoiceLoopContinue(s)
  \/ \E s \in Sess : VoiceLoopCaught(s)
  \/ \E s \in Sess : VoiceLoopExit(s)
  \/ \E s \in Sess : RouteRead(s)
  \/ \E s \in Sess : PromptBuilt(s)
  \/ \E s \in Sess, raw \in SpecReplies : Generated(s, raw)
  \/ \E s \in Sess : ReplyChecked(s)
  \/ \E s \in Sess : GenerationFailed(s)
  \/ \E s \in Sess : SpeakStart(s)
  \/ \E s \in Sess : SpeakListen(s)
  \/ \E s \in Sess : SpeakListenFailed(s)
  \/ \E s \in Sess : SpeakJoined(s)
  \/ \E t \in Tts : TtsFinished(t)
  \/ \E m \in Mon : ListenerCallback(m)
  \/ \E m \in Mon : ListenerExit(m)
  \/ \E m \in Mon, raw \in HeardBlank : OnSpeechDetected(m, raw)
  \/ \E m \in Mon : OnSpeechUnknown(m)

RestartSpec == Init /\ [][RestartNext]_vars

-----------------------------------------------------------------------------
(* Properties *)

\* stop_chat has been entered and start_chat has not been called since.
StopCalled == lastGui = "stop"

\* stop_chat has returned and start_chat has not been called since.
StopCompleted == lastGui = "stop" /\ gpc = "ready"

\* A playback is audible.
Playing(t) == tts[t] = "playing"

\* The thread is inside a _speak call.
InSpeak(w) == pc[w] \in {"sp_mon", "sp_join"}

\* The thread is between the generation request and the end of the playback
\* of its reply.
InReply(w) == pc[w] \in {"gen", "reply", "sp_clear", "sp_mon", "sp_join"}

\* A listener thread that lives and whose stop handle has not been called.
ActiveListener(m) == pc[m] # "dead" /\ mrun[m]

\* C1: once stop_chat() has returned, and until the next start_chat(), the
\* status stays Idle: no Listening, Speaking, Interrupted or Error status is
\* emitted after the stop.
C1_StopReachesIdle == StopCompleted => status = "Idle"

\* C2: stop_chat() is a hard cancellation: once it has returned no playback
\* is audible, and from its call to the next start_chat() no thread starts a
\* generation call or a playback.
C2_HardCancellation ==
  [][ /\ StopCompleted => \A t \in Tts : ~Playing(t)
      /\ StopCalled =>
           /\ \A w \in Workers : pc'[w] = "gen" => pc[w] = "gen"
           /\ \A t \in Tts : Playing(t)' => Playing(t) ]_vars

\* C3: start_chat() called while running is true starts no thread and
\* changes nothing of the session; called while running is false it sets
\* running and starts the loop on exactly one new thread, kept in thread.
C3_StartChatIdempotent ==
  [][ GuiStartChat =>
        IF running
        THEN UNCHANGED <<running, thread, speaking, interrupt_event,
                         tts_thread, background_listener, persona, model,
                         pc, heard, jt, tts, mrun, mqtt_client, prompt,
                         reply>>
        ELSE /\ running'
             /\ thread' \in Sess
             /\ pc[thread'] = "dead"
             /\ pc' = [pc EXCEPT ![thread'] = "top"] ]_vars

\* start_chat() was called while the session was running, here in the
\* middle of a playback.
C3_Witness ==
  /\ lastGui = "start_noop"
  /\ running
  /\ \E s \in Sess : pc[s] = "sp_join" /\ thread = s

\* C4: at most one playback is active in every reachable state.
C4_AtMostOnePlayback == Cardinality({t \in Tts : Playing(t)}) <= 1

\* C5: the monitor is active only while a playback is: when no _speak call
\* is in progress and no playback is active, no background listener is left
\* running.
C5_MonitorIffPlayback ==
  ((\A w \in Workers : ~InSpeak(w)) /\ (\A t \in Tts : ~Playing(t)))
    => \A m \in Mon : ~ActiveListener(m)

\* C6: a playback during which the interrupt event is set does not run to
\* its natural end: it is ended by the engine being stopped.
C6_InterruptEndsPlayback ==
  [][ \A t \in Tts : (Playing(t) /\ interrupt_event) => tts'[t] # "dead" ]_vars

\* C7: a barge-in sets the interrupt event only while the playback it
\* interrupts has not completed: at that step a playback is still active.
C7_InterruptBeforeCompletion ==
  [][ \A m \in Mon : (pc[m] = "m_rec" /\ pc'[m] = "route")
                       => \E t \in Tts : Playing(t) ]_vars

\* The stop phrases of the barge-in monitor: stop, quiet, shut up, be quiet,
\* enough.
StopPhrases ==
  { W_stop,
    <<"q","u","i","e","t">>,
    <<"s","h","u","t"," ","u","p">>,
    <<"b","e"," ","q","u","i","e","t">>,
    <<"e","n","o","u","g","h">> }

\* C8: a stop phrase recognized by the monitor during playback is not
\* forwarded: _process_barge_in is never entered with it, so it ends no
\* session and reaches no generation call.
C8_StopPhraseNotForwarded ==
  \A m \in Mon : pc[m] = "route" => Normalize(heard[m]) \notin StopPhrases

\* The listener thread is handling a barge-in utterance: from the interrupt
\* to the end of the playback of its reply.
InBargeIn(m) == pc[m] = "route" \/ InReply(m)

\* C9: while a barge-in utterance is being routed, answered and spoken on
\* the listener thread, the session thread does not enter Listening (it does
\* not start to capture microphone input).
C9_ListenBypassed ==
  [][ \A s \in Sess : (pc[s] # "listen" /\ pc'[s] = "listen")
                        => \A m \in Mon : ~InBargeIn(m) ]_vars

\* c is the letter d (lower case) in either case.
SameLetter(c, d) ==
  c = d \/ \E i \in 1..Len(LowerCase) : LowerCase[i] = d /\ UpperCase[i] = c

\* raw is the word q in any casing, with blanks before and after it only.
IsPaddedWord(raw, q) ==
  \E a \in 0..Len(raw) :
    /\ a + Len(q) <= Len(raw)
    /\ \A i \in 1..a : raw[i] = " "
    /\ \A i \in 1..Len(q) : SameLetter(raw[a + i], q[i])
    /\ \A i \in (a + Len(q) + 1)..Len(raw) : raw[i] = " "

\* raw is, trimmed and in lower case, exactly one of quit, exit, stop, end.
ExactQuit(raw) ==
  \E q \in {<<"q","u","i","t">>, <<"e","x","i","t">>,
            <<"s","t","o","p">>, <<"e","n","d">>} : IsPaddedWord(raw, q)

\* C10: the routing of a transcribed text ends the session (running false,
\* status Idle, the cycle left) if and only if the text, trimmed and in
\* lower case, is exactly quit, exit, stop or end; any other text leaves
\* running as it is and does not leave the loop.
C10_QuitPhraseExact ==
  [][ \A w \in Workers : (pc[w] = "route" /\ pc'[w] # "route") =>
        IF ExactQuit(heard[w])
        THEN ~running' /\ status' = "Idle" /\ pc'[w] = CycleQuit(w)
        ELSE running' = running /\ pc'[w] # "exit" ]_vars

\* The session thread has left its loop on hearing " Quit ".
C10_Witness ==
  \E s \in Sess :
    /\ pc[s] = "exit"
    /\ heard[s] = <<" ","Q","u","i","t"," ">>
    /\ ~running
    /\ status = "Idle"

\* raw is the word q, letter for letter, with blanks before and after it
\* only.
IsPadded(raw, q) ==
  \E a \in 0..Len(raw) :
    /\ a + Len(q) <= Len(raw)
    /\ \A i \in 1..a : raw[i] = " "
    /\ \A i \in 1..Len(q) : raw[a + i] = q[i]
    /\ \A i \in (a + Len(q) + 1)..Len(raw) : raw[i] = " "

\* The thread acts on the reply it holds.
ChecksReply(w) == pc[w] = "reply" /\ pc'[w] # "reply"

\* The reply ends the session: running false, status Idle, the cycle left
\* with no playback started and the publish position not entered.
ReplyEndsSession(w) ==
  /\ ~running'
  /\ status' = "Idle"
  /\ pc'[w] = CycleQuit(w)
  /\ UNCHANGED <<speaking, tts_thread, tts>>

\* The reply is handed to _speak under the status Speaking and running is
\* left as it is.
ReplySpoken(w) ==
  /\ running' = running
  /\ status' = "Speaking"
  /\ pc'[w] = "sp_clear"

\* C11 as stated: the response text is compared with QUIT as it comes from
\* the generator; the reply QUIT ends the session with no playback and no
\* publish, any other reply is spoken and does not end the session.
C11_QuitReplyUntrimmed ==
  [][ \A w \in Workers : ChecksReply(w) =>
        IF reply[w] = <<"Q","U","I","T">>
        THEN ReplyEndsSession(w)
        ELSE ReplySpoken(w) ]_vars

\* C11: when the generator's reply, with the blanks around it removed, is
\* exactly QUIT (case-sensitive), the session ends (running false, status
\* Idle) and no playback and no publish is invoked for that reply; any other
\* reply is spoken and does not end the session.
C11_QuitReplyExact ==
  [][ \A w \in Workers : ChecksReply(w) =>
        IF IsPadded(reply[w], <<"Q","U","I","T">>)
        THEN ReplyEndsSession(w)
        ELSE ReplySpoken(w) ]_vars

\* The session thread has left its loop on the reply QUIT.
C11_Witness ==
  \E s \in Sess :
    /\ pc[s] = "exit"
    /\ reply[s] = <<"Q","U","I","T">>
    /\ ~running
    /\ status = "Idle"

\* The text t begins with the keyword k.
HasKeyword(t, k) == Len(t) >= Len(k) /\ \A i \in 1..Len(k) : t[i] = k[i]

\* What follows the first n characters of t.
After(t, n) == [i \in 1..(Len(t) - n) |-> t[n + i]]

\* v is made of blanks only.
AllBlank(v) == \A i \in 1..Len(v) : v[i] = " "

\* u is v without the blanks around it.
IsTrimOf(u, v) ==
  /\ u = <<>> \/ (u[1] # " " /\ u[Len(u)] # " ")
  /\ \E a \in 0..Len(v) :
       /\ a + Len(u) <= Len(v)
       /\ \A i \in 1..a : v[i] = " "
       /\ \A i \in 1..Len(u) : v[a + i] = u[i]
       /\ \A i \in (a + Len(u) + 1)..Len(v) : v[i] = " "

\* The thread routes the text it holds.
Routes(w) == pc[w] = "route" /\ pc'[w] # "route"

\* The text v is what the routing passes on: with a model, a text that is
\* not blank reaches the generation call, and the prompt built there holds v
\* without the blanks around it.
PassesOn(w, v) ==
  /\ (model /\ ~AllBlank(v)) => pc'[w] = "gen"
  /\ pc'[w] = "gen" => IsTrimOf(prompt'[w].text, v)

\* C12: the routing of a text (trimmed, in lower case, and not a quit
\* phrase) that starts with the keyword emo or emusinio sets the persona to
\* EMO or EMUSINIO, removes that one leading keyword and passes on the rest
\* of the text (without the blanks around it) unchanged; a text that starts
\* with neither keyword leaves the persona and the text as they are.
C12_PersonaSwitchRouting ==
  [][ \A w \in Workers : (Routes(w) /\ ~ExactQuit(heard[w])) =>
        LET t == Normalize(heard[w])
        IN IF HasKeyword(t, <<"e","m","o">>)
           THEN persona' = "EMO" /\ PassesOn(w, After(t, 3))
           ELSE IF HasKeyword(t, <<"e","m","u","s","i","n","i","o">>)
           THEN persona' = "EMUSINIO" /\ PassesOn(w, After(t, 8))
           ELSE /\ persona' = persona
                /\ PassesOn(w, t)
                /\ pc'[w] = "gen" => prompt'[w].text = t ]_vars

\* A thread is about to call the generator with the text hi under the
\* persona EMUSINIO, which a leading keyword has switched to.
C12_Witness ==
  \E w \in Workers :
    /\ pc[w] = "gen"
    /\ prompt[w] = [persona |-> "EMUSINIO", instruction |-> "EMUSINIO",
                    text |-> <<"h","i">>]
    /\ persona = "EMUSINIO"

\* The text t is a persona keyword with nothing but blanks after it.
KeywordOnly(t) ==
  \/ HasKeyword(t, <<"e","m","o">>) /\ AllBlank(After(t, 3))
  \/ HasKeyword(t, <<"e","m","u","s","i","n","i","o">>) /\ AllBlank(After(t, 8))

\* The persona a keyword-only text names.
KeywordPersona(t) ==
  IF HasKeyword(t, <<"e","m","o">>) THEN "EMO" ELSE "EMUSINIO"

\* C13: when the text left after a persona switch is empty, the cycle
\* calls no generator (no prompt is built, the thread goes to the end of
\* its cycle), emits no Generating or Speaking status and keeps the switched
\* persona; the session thread then goes to the top of its loop without a
\* status, where it emits Listening if running is still true.
C13_EmptyAfterSwitch ==
  [][ /\ \A w \in Workers :
           (Routes(w) /\ KeywordOnly(Normalize(heard[w]))) =>
             /\ pc'[w] = CycleSkip(w)
             /\ prompt' = prompt
             /\ status' = status \/ status' \notin {"Generating", "Speaking"}
             /\ persona' = KeywordPersona(Normalize(heard[w]))
             /\ running' = running
      /\ \A s \in Sess :
           /\ (pc[s] = "skip" /\ pc'[s] # "skip") =>
                 pc'[s] = "top" /\ status' = status /\ persona' = persona
           /\ (pc[s] = "top" /\ pc'[s] # "top" /\ running) =>
                 pc'[s] = "listen" /\ status' = "Listening" ]_vars

\* With a model at hand, the session thread has heard emusinio alone: the
\* persona is switched and the thread is at its "continue".
C13_Witness ==
  \E s \in Sess :
    /\ pc[s] = "skip"
    /\ Normalize(heard[s]) = <<"e","m","u","s","i","n","i","o">>
    /\ persona = "EMUSINIO"
    /\ model
    /\ running

\* The session thread, at the top of its loop with running true, goes on to
\* listen and emits Listening.
ReLoops(s) ==
  (pc[s] = "top" /\ pc'[s] # "top" /\ running) =>
    pc'[s] = "listen" /\ status' = "Listening"

\* The thread is in the cycle's except block after a failed generation call.
GenerationRaised(s) == pc[s] = "x_gen"

\* C14: a failure of the generation call leaves running as it is, starts no
\* playback and enters no publish: the session thread goes through the
\* except block to the top of its loop, where it emits Listening again while
\* running is true; the thread does not end.
C14_GenerationFailureGoesOn ==
  [][ \A s \in Sess :
        /\ (pc[s] = "gen" /\ pc'[s] \notin {"gen", "reply"}) =>
              /\ GenerationRaised(s)'
              /\ running' = running
              /\ UNCHANGED <<speaking, tts_thread, tts>>
        /\ (GenerationRaised(s) /\ ~GenerationRaised(s)') =>
              /\ pc'[s] = "top"
              /\ running' = running
              /\ UNCHANGED <<speaking, tts_thread, tts>>
        /\ ReLoops(s) ]_vars

\* The generation call of a running session has failed and the session
\* thread is in the except block.
C14_Witness ==
  \E s \in Sess :
    /\ GenerationRaised(s)
    /\ prompt[s] # NoPrompt
    /\ running
    /\ thread = s

\* C15: the status emitted for a failed generation call carries the
\* network-failure indicator, Error:NetworkConnectionLost, which the status
\* of a recognition failure (Error) does not.
C15_NetworkIndicator ==
  [][ \A s \in Sess :
        (GenerationRaised(s) /\ ~GenerationRaised(s)') =>
          status' = "Error:NetworkConnectionLost" ]_vars

\* The thread is in one of the cycle's except blocks.
InExcept(s) == pc[s] \in {"x_unknown", "x_gen", "x_pub"}

\* No failure ends the session thread: the thread ends only from the end of
\* its loop, leaves the loop only with running false, goes from every except
\* block to the top of the loop and from there, while running is true, on to
\* listen; the end of a playback thread, failed or not, moves no other
\* thread and emits no status.
ThreadSurvives(s) ==
  /\ (pc[s] # "dead" /\ pc'[s] = "dead") => pc[s] = "exit"
  /\ (pc[s] # "exit" /\ pc'[s] = "exit") => ~running'
  /\ (InExcept(s) /\ pc'[s] # pc[s]) => pc'[s] = "top"
  /\ (pc[s] = "listen" /\ pc'[s] \notin {"listen", "route"}) =>
        pc'[s] \in {"x_unknown", "top"}
  /\ (pc[s] = "gen" /\ pc'[s] \notin {"gen", "reply"}) => pc'[s] = "x_gen"
  /\ (pc[s] = "pub" /\ pc'[s] \notin {"pub", "top"}) => pc'[s] = "x_pub"
  /\ ReLoops(s)
  /\ (\E t \in Tts : tts[t] # "dead" /\ tts'[t] = "dead") =>
        pc' = pc /\ status' = status

\* C16 as stated: no failure ends the session thread, and every failure is
\* turned into a status when its except block is left.
C16_EveryFailureGivesStatus ==
  [][ \A s \in Sess :
        /\ ThreadSurvives(s)
        /\ (pc[s] = "listen" /\ pc'[s] = "top") => status' = "Error"
        /\ (InExcept(s) /\ pc'[s] # pc[s]) => status' = "Error" ]_vars

\* C16: no failure inside a cycle ends the session thread; a failure of the
\* recognition service, of the generation call or of the publish call is
\* turned into the status Error, an unintelligible transcription and a
\* failure of the playback thread are only logged; in every case the thread
\* reaches the top of its loop again and, while running is true, listens
\* again; it leaves the loop only after running has become false.
C16_FailuresDoNotEndThread ==
  [][ \A s \in Sess :
        /\ ThreadSurvives(s)
        /\ (pc[s] = "listen" /\ pc'[s] = "top") => status' = "Error"
        /\ (pc[s] \in {"x_gen", "x_pub"} /\ pc'[s] # pc[s]) => status' = "Error"
        /\ (pc[s] = "x_unknown" /\ pc'[s] # pc[s]) => status' = status ]_vars

\* The publish call of a running session has failed and the session thread
\* is in the except block.
C16_Witness ==
  \E s \in Sess : pc[s] = "x_pub" /\ running /\ thread = s

\* C17: an unintelligible transcription is discarded silently: from the
\* failed recognition to the top of the loop no status is emitted, no prompt
\* is built, nothing is spoken and running is left as it is; at the top the
\* thread emits Listening again while running is true.
C17_UnintelligibleSilent ==
  [][ \A s \in Sess :
        /\ ((pc[s] = "listen" /\ pc'[s] = "x_unknown")
              \/ (pc[s] = "x_unknown" /\ pc'[s] # "x_unknown")) =>
              /\ pc'[s] \in {"x_unknown", "top"}
              /\ status' = status
              /\ running' = running
              /\ prompt' = prompt
              /\ UNCHANGED <<speaking, tts_thread, tts>>
        /\ ReLoops(s) ]_vars

\* The session thread of a running session is in the except block of
\* UnknownValueError, the status still Listening.
C17_Witness ==
  \E s \in Sess :
    /\ pc[s] = "x_unknown"
    /\ running
    /\ thread = s
    /\ status = "Listening"

\* C18: a failed publish, or a publish on a client that update_config has
\* dropped since the check, is only logged: the steps that handle it emit no
\* status and leave running and the persona as they are.
C18_NotifyFailureOnlyLogged ==
  [][ \A w \in Workers :
        (pc[w] \in {"pub", "x_pub"} /\ pc'[w] # pc[w]) =>
          status' = status /\ running' = running /\ persona' = persona ]_vars

\* The thread is at the generation call, holds its reply, is inside _speak
\* or at the publish call.
PastGeneration(w) ==
  pc[w] \in {"gen", "x_gen", "reply", "sp_clear", "sp_mon", "sp_join",
             "pub", "x_pub"}

\* C19: without an API credential the backend is constructed with the
\* status Error (update_config emits it again), and no thread, session or
\* listener, ever builds a prompt or reaches the generation call.
C19_NoCredentialNoGeneration ==
  ~model =>
    /\ lastGui = "none" => status = "Error"
    /\ \A w \in Workers : ~PastGeneration(w) /\ prompt[w] = NoPrompt

\* Without a credential the session thread has heard hi and is at its
\* "continue".
C19_Witness ==
  \E s \in Sess :
    /\ ~model
    /\ pc[s] = "skip"
    /\ Normalize(heard[s]) = <<"h","i">>
    /\ running

\* C20: the playback threads and the listener threads write neither the
\* persona nor running nor a status: no step of theirs changes one of them.
C20_SessionThreadOnlyWriter ==
  [][ /\ \A m \in Mon :
           (pc[m] # "dead" /\ pc'[m] # pc[m]) =>
             UNCHANGED <<persona, running, status>>
      /\ (tts' # tts /\ pc' = pc) => UNCHANGED <<persona, running, status>> ]_vars

\* A playback thread has been started and has not ended.
InFlight(t) == tts[t] # "dead"

\* C21: the interrupt event is never cleared while a playback is still in
\* flight: a step that clears the event set by a barge-in or by stop_chat is
\* taken only when every playback thread has ended.
C21_NoClearInFlight ==
  [][ (interrupt_event /\ ~interrupt_event') =>
        \A t \in Tts : ~InFlight(t) ]_vars

\* C22: once every _speak call has returned, no listener thread acts on a
\* transcription any more: none sets the interrupt event, emits Interrupted
\* and enters _process_barge_in.
C22_MonitorStoppedOnReturn ==
  [][ (\A w \in Workers : ~InSpeak(w)) =>
        \A m \in Mon : pc[m] = "m_rec" => pc'[m] # "route" ]_vars

\* C23: at the step in which a listener thread sets the interrupt event,
\* emits Interrupted and forwards the utterance, the speaking flag is true.
C23_NoLateTranscription ==
  [][ \A m \in Mon : (pc[m] = "m_rec" /\ pc'[m] = "route") => speaking ]_vars

\* C26: the speaking flag is true whenever a playback is audible and false
\* whenever no _speak call is in progress.
C26_SpeakingFlag ==
  /\ (\E t \in Tts : Playing(t)) => speaking
  /\ (\A w \in Workers : ~InSpeak(w)) => ~speaking

\* The session thread s is inside the body of the while loop of _voice_loop.
InLoop(s) == pc[s] \notin {"dead", "top", "exit"}

\* C24: at most one session thread executes the voice loop at any time.
C24_AtMostOneSessionThread == Cardinality({s \in Sess : InLoop(s)}) <= 1

\* C25: the prompt a thread hands to the generator names the persona whose
\* instruction text it carries.
C25_PromptOnePersona ==
  \A w \in Workers :
    pc[w] = "gen" => prompt[w].instruction = prompt[w].persona

====
